---- MODULE Spec2Model ----
(***************************************************************************)
(* Model of src/app.py: the Streamlit finance manager.  The state is the   *)
(* session ledger (st.session_state.transactions_df), the monthly CSV      *)
(* files, the wall-clock month that names the current file, and the        *)
(* widgets whose value survives a script run (the file uploader).  Every   *)
(* action is one run of the script from line 74 to its end or to the       *)
(* st.rerun() that cuts it short.                                          *)
(***************************************************************************)
EXTENDS Integers, Sequences, FiniteSets, TLC

VARIABLES
    transactions_df,  \* st.session_state.transactions_df: sequence of rows
    loaded,           \* 'transactions_df' in st.session_state
    files,            \* file name -> [exists, rows]: the CSV files on disk
    now,              \* the month datetime.now() falls in
    uploaded_file,    \* value of the file_uploader widget (kept across runs)
    rerun,            \* st.rerun() was called: the next run starts at once
    trigger,          \* the widget event that started the latest run
    done,             \* handlers that acted in the latest run
    msgs,             \* st.success / st.error messages of the latest run
    saved_to,         \* the file named by "Data saved to ..." in the latest run
    prev_df,          \* the ledger as the latest run found it (history)
    metrics           \* total_income, total_expense, net_savings last shown

vars == <<transactions_df, loaded, files, now, uploaded_file, rerun,
          trigger, done, msgs, saved_to, prev_df, metrics>>

----------------------------------------------------------------------------
(* Bounds *)

MaxLen == 3

----------------------------------------------------------------------------
(* Cells.  A DataFrame cell is a number, a string or NaN (missing).        *)

Num(n) == [k |-> "num", n |-> n, s |-> ""]
Str(s) == [k |-> "str", n |-> 0, s |-> s]
NaN == [k |-> "nan", n |-> 0, s |-> ""]

Columns == {"type", "category", "amount", "date"}

\* How to_csv writes a float and how read_csv recognises one.
NumText == <<"0.0", "1.0", "2.0", "3.0", "4.0">>

IsNumText(t) == \E i \in 1..Len(NumText) : NumText[i] = t

NumVal(t) == (CHOOSE i \in 1..Len(NumText) : NumText[i] = t) - 1

\* pandas' default na_values: text that read_csv turns into NaN.
NaValues == {"", "NA", "N/A", "NULL", "NaN", "None", "nan", "null", "n/a", "<NA>", "#N/A"}

CellText(c) ==
    IF c.k = "num" THEN NumText[c.n + 1]
    ELSE IF c.k = "str" THEN c.s
    ELSE ""

\* DataFrame.to_csv(index=False) of the four canonical columns.
ToCsv(df) == [i \in 1..Len(df) |-> [c \in Columns |-> CellText(df[i][c])]]

\* pd.read_csv: NaN for na_values; a column is numeric when all of its
\* remaining cells are numbers, otherwise its cells stay strings.
ReadCsv(rows) ==
    LET numeric(c) == \A i \in 1..Len(rows) :
                          rows[i][c] \in NaValues \/ IsNumText(rows[i][c])
        cell(i, c) == IF rows[i][c] \in NaValues THEN NaN
                      ELSE IF numeric(c) THEN Num(NumVal(rows[i][c]))
                      ELSE Str(rows[i][c])
    IN [i \in 1..Len(rows) |-> [c \in Columns |-> cell(i, c)]]

----------------------------------------------------------------------------
(* Files *)

Months == <<"2025-01", "2025-02">>

FileName(m) == <<"transactions_", m, ".csv">>

FileNames == {FileName(Months[i]) : i \in 1..Len(Months)}

get_data_filename == FileName(now)

NoName == <<"", "", "">>

Absent == [exists |-> FALSE, rows |-> <<>>]

\* a file this program wrote has at least its header line, so it exists and
\* has a size above 0 together
load_transactions(fs, filename) ==
    IF fs[filename].exists THEN ReadCsv(fs[filename].rows) ELSE <<>>

save_transactions(fs, df, filename) ==
    [fs EXCEPT ![filename] = [exists |-> TRUE, rows |-> ToCsv(df)]]

----------------------------------------------------------------------------
(* DataFrame operations used by the handlers *)

\* Mutant: the new rows are put in front of the ledger.
ConcatFront(a, b) == b \o a

\* pd.concat([a, b], ignore_index=True)
Concat(a, b) == a \o b

RECURSIVE KeepFirst(_, _)
KeepFirst(df, seen) ==
    IF df = <<>> THEN <<>>
    ELSE IF \E j \in 1..Len(seen) : seen[j] = Head(df)
         THEN KeepFirst(Tail(df), seen)
         ELSE <<Head(df)>> \o KeepFirst(Tail(df), seen \o <<Head(df)>>)

RECURSIVE KeepLast(_)
KeepLast(df) ==
    IF df = <<>> THEN <<>>
    ELSE IF \E j \in 2..Len(df) : df[j] = Head(df)
         THEN KeepLast(Tail(df))
         ELSE <<Head(df)>> \o KeepLast(Tail(df))

\* Mutant: drop_duplicates(keep='last').
drop_duplicates_last(df) == KeepLast(df)

\* Mutant: no de-duplication after the concat.
drop_nothing(df) == df

\* df[list(expected_columns)].drop_duplicates(ignore_index=True)
drop_duplicates(df) == KeepFirst(df, <<>>)

\* Mutant: the position is taken as 1-based.
DropOneBased(df, trans_index) ==
    [j \in 1..(Len(df) - 1) |-> IF j < trans_index THEN df[j] ELSE df[j + 1]]

\* df.drop(index=trans_index).reset_index(drop=True); the index is 0-based
Drop(df, trans_index) ==
    [j \in 1..(Len(df) - 1) |-> IF j <= trans_index THEN df[j] ELSE df[j + 1]]

\* options of the delete selectbox: "{i}: {type} - {category} - {amount}"
delete_options(df) ==
    [j \in 1..Len(df) |-> <<j - 1, ":", df[j]["type"], df[j]["category"], df[j]["amount"]>>]

\* int(trans_to_delete.split(':')[0])
OptionIndex(option) == option[1]

----------------------------------------------------------------------------
(* Dashboard aggregates *)

\* Series.sum() skips NaN.  Amounts are whole numbers, which float64 adds
\* exactly.
AmountOf(row) == IF row["amount"].k = "num" THEN row["amount"].n ELSE 0

RECURSIVE SumWhere(_, _)
SumWhere(df, kind) ==
    IF df = <<>> THEN 0
    ELSE (IF Head(df)["type"] = Str(kind) THEN AmountOf(Head(df)) ELSE 0)
         + SumWhere(Tail(df), kind)

total_income(df) == SumWhere(df, "income")

\* Mutant: the expense total is taken over the unfiltered frame.
total_of_all(df) == SumWhere(df, "expense") + SumWhere(df, "income")

total_expense(df) == SumWhere(df, "expense")

net_savings(df) == total_income(df) - total_expense(df)

Dashboard(df) ==
    [income |-> total_income(df), expense |-> total_expense(df),
     net |-> net_savings(df)]

----------------------------------------------------------------------------
(* Widget inputs *)

Date1 == "2025-01-05"

\* trans_type, trans_category, trans_amount, trans_date of the add form
FormInputs ==
    { [type |-> "expense", category |-> "Food", amount |-> 1, date |-> Date1],
      [type |-> "income",  category |-> "NA",   amount |-> 2, date |-> Date1],
      [type |-> "expense", category |-> "",     amount |-> 1, date |-> Date1] }

NoForm == [type |-> "", category |-> "", amount |-> 0, date |-> ""]

TextRow(t, c, a, d) ==
    [x \in Columns |-> CASE x = "type" -> t [] x = "category" -> c
                         [] x = "amount" -> a [] OTHER -> d]

NoFile == [present |-> FALSE, cols |-> {}, rows |-> <<>>]

\* CSV files the user may put in the uploader
Uploads ==
    { \* the four columns and one more; the first row has no category and
      \* the last two rows are the same
      [present |-> TRUE, cols |-> Columns \cup {"note"},
       rows |-> << TextRow("income", "", "2.0", Date1),
                   TextRow("expense", "Food", "1.0", Date1),
                   TextRow("expense", "Food", "1.0", Date1) >>],
      \* no date column
      [present |-> TRUE, cols |-> {"type", "category", "amount"},
       rows |-> << [x \in {"type", "category", "amount"} |->
                      CASE x = "type" -> "expense" [] x = "category" -> "Food"
                        [] OTHER -> "2.0"] >>] }

NoTrigger == [kind |-> "none", form |-> NoForm, index |-> 0]

AddTrigger(f) == [kind |-> "add", form |-> f, index |-> 0]

DeleteTrigger(i) == [kind |-> "delete", form |-> NoForm, index |-> i]

----------------------------------------------------------------------------
(* The sections of the script.  Each takes and returns the run's context   *)
(* [df, files, msgs, saved, done, rerun]; after st.rerun() the rest of     *)
(* the script is skipped.                                                  *)

\* Mutant: the category check is missing.
AnyCategory(form) == TRUE

\* line 100: if not trans_category
HasCategory(form) == form.category # ""

\* line 103: the one-row DataFrame of the submitted form
NewTransaction(form) ==
    << [c \in Columns |->
          CASE c = "type" -> Str(form.type)
            [] c = "category" -> Str(form.category)
            [] c = "amount" -> Num(form.amount)
            [] OTHER -> Str(form.date)] >>

\* lines 99-107
AddTransaction(st, trig) ==
    IF st.rerun \/ trig.kind # "add" THEN st
    ELSE IF ~HasCategory(trig.form)
    THEN [st EXCEPT !.msgs = @ \cup {"Please enter a category."},
                    !.done = @ \cup {"add_error"}]
    ELSE LET df == Concat(st.df, NewTransaction(trig.form))
         IN [df |-> df,
             files |-> save_transactions(st.files, df, get_data_filename),
             msgs |-> st.msgs \cup {"Data saved", "Transaction added!"},
             saved |-> get_data_filename,
             done |-> st.done \cup {"add"},
             rerun |-> TRUE]

\* line 114: expected_columns.issubset(set(uploaded_df.columns))
HasExpectedColumns(file) == Columns \subseteq file.cols

\* lines 111-121
UploadCsv(st, file) ==
    IF st.rerun \/ ~file.present THEN st
    ELSE IF HasExpectedColumns(file)
    THEN LET df == drop_duplicates(Concat(st.df, ReadCsv(file.rows)))
         IN [df |-> df,
             files |-> save_transactions(st.files, df, get_data_filename),
             msgs |-> st.msgs \cup {"Data saved", "CSV file uploaded and data merged!"},
             saved |-> get_data_filename,
             done |-> st.done \cup {"merge"},
             rerun |-> TRUE]
    ELSE [st EXCEPT !.msgs = @ \cup {"Upload failed. The CSV is missing required columns."},
                    !.done = @ \cup {"merge_error"}]

\* lines 179-189
DeleteTransaction(st, trig) ==
    IF st.rerun \/ trig.kind # "delete" \/ st.df = <<>> THEN st
    ELSE LET df == Drop(st.df, trig.index)
         IN [df |-> df,
             files |-> save_transactions(st.files, df, get_data_filename),
             msgs |-> st.msgs \cup {"Data saved"},
             saved |-> get_data_filename,
             done |-> st.done \cup {"delete"},
             rerun |-> TRUE]

\* One run of the script, lines 74-191, started by trig with file in the
\* uploader.
RunScript(trig, file) ==
    LET s0 == [df |-> IF loaded THEN transactions_df
                      ELSE load_transactions(files, get_data_filename),
               files |-> files,
               msgs |-> {},
               saved |-> NoName,
               done |-> IF loaded THEN {} ELSE {"load"},
               rerun |-> FALSE]
        s1 == AddTransaction(s0, trig)
        s2 == UploadCsv(s1, file)
        s3 == DeleteTransaction(s2, trig)
    IN /\ transactions_df' = s3.df
       /\ loaded' = TRUE
       /\ files' = s3.files
       /\ uploaded_file' = file
       /\ rerun' = s3.rerun
       /\ trigger' = trig
       /\ done' = s3.done
       /\ msgs' = s3.msgs
       /\ saved_to' = s3.saved
       /\ prev_df' = s0.df
       /\ metrics' = IF s2.rerun THEN metrics ELSE Dashboard(s2.df)
       /\ UNCHANGED now

----------------------------------------------------------------------------
(* Initial state and actions.  A button press is taken when no rerun is    *)
(* pending; the run st.rerun() asks for starts at once.  The uploader      *)
(* keeps its file from run to run, so an accepted file is merged again by  *)
(* every run until it is removed.                                          *)

\* files an earlier session may have left for the first month
InitialStores ==
    { Absent,
      [exists |-> TRUE, rows |-> <<TextRow("expense", "Food", "1.0", Date1)>>] }

Init ==
    /\ transactions_df = <<>>
    /\ loaded = FALSE
    /\ \E f \in InitialStores :
           files = [n \in FileNames |-> IF n = FileName(Months[1]) THEN f ELSE Absent]
    /\ now = Months[1]
    /\ uploaded_file = NoFile
    /\ rerun = FALSE
    /\ trigger = NoTrigger
    /\ done = {}
    /\ msgs = {}
    /\ saved_to = NoName
    /\ prev_df = <<>>
    /\ metrics = [income |-> 0, expense |-> 0, net |-> 0]

\* first run of a session: line 74 finds no transactions_df and loads it
OpenApp ==
    /\ ~loaded
    /\ RunScript(NoTrigger, NoFile)

\* the browser session ends; st.session_state and the widgets are gone
CloseSession ==
    /\ loaded
    /\ transactions_df' = <<>>
    /\ loaded' = FALSE
    /\ uploaded_file' = NoFile
    /\ rerun' = FALSE
    /\ trigger' = NoTrigger
    /\ done' = {}
    /\ msgs' = {}
    /\ saved_to' = NoName
    /\ prev_df' = <<>>
    /\ metrics' = [income |-> 0, expense |-> 0, net |-> 0]
    /\ UNCHANGED <<files, now>>

\* "Add Transaction" pressed
SubmitAdd(form) ==
    /\ loaded /\ ~rerun
    /\ HasCategory(form) => Len(transactions_df) < MaxLen
    /\ RunScript(AddTrigger(form), uploaded_file)

\* a file is put in the uploader
UploadFile(file) ==
    /\ loaded /\ ~rerun
    /\ RunScript(NoTrigger, file)

\* the file is removed from the uploader
ClearUpload ==
    /\ loaded
    /\ uploaded_file.present
    /\ RunScript(NoTrigger, NoFile)

\* "Delete Selected Transaction" pressed with an option selected
ClickDelete(option) ==
    /\ loaded /\ ~rerun
    /\ RunScript(DeleteTrigger(OptionIndex(option)), uploaded_file)

\* the run that st.rerun() starts
Rerun ==
    /\ rerun
    /\ RunScript(NoTrigger, uploaded_file)

\* datetime.now() passes into the next month
ClockAdvance ==
    /\ now = Months[1]
    /\ now' = Months[2]
    /\ UNCHANGED <<transactions_df, loaded, files, uploaded_file, rerun,
                   trigger, done, msgs, saved_to, prev_df, metrics>>

Next ==
    \/ OpenApp
    \/ CloseSession
    \/ \E form \in FormInputs : SubmitAdd(form)
    \/ \E file \in Uploads : UploadFile(file)
    \/ ClearUpload
    \/ \E j \in 1..Len(transactions_df) : ClickDelete(delete_options(transactions_df)[j])
    \/ Rerun
    \/ ClockAdvance

Spec == Init /\ [][Next]_vars

----------------------------------------------------------------------------
(* Properties *)

RowsOf(df) == {df[j] : j \in 1..Len(df)}

NoRepeatedRow(df) == \A i, j \in 1..Len(df) : df[i] = df[j] => i = j

FirstAt(df, row) == CHOOSE i \in 1..Len(df) :
                        df[i] = row /\ \A j \in 1..(i - 1) : df[j] # row

\* the batch of the uploader, as the merge reads it
Batch == ReadCsv(uploaded_file.rows)

\* every row of the batch is already a row of the ledger the run found
BatchAlreadyPresent ==
    /\ "merge" \in done
    /\ Len(Batch) >= 1
    /\ \A i \in 1..Len(Batch) : Batch[i] \in RowsOf(prev_df)

\* some row of the file lacks one of the four fields
MissingField(file) ==
    \/ ~(Columns \subseteq file.cols)
    \/ \E i \in 1..Len(file.rows) : \E c \in Columns : file.rows[i][c] = ""

\* C1: loading store s, appending a valid transaction t, persisting to s and
\* loading s again gives append(load(s), t), row for row.
C1_RoundTrip ==
    [][ ( /\ "add" \in done'
          /\ now' = now
          /\ transactions_df = load_transactions(files, get_data_filename) )
        => load_transactions(files', get_data_filename)
             = load_transactions(files, get_data_filename)
                 \o NewTransaction(trigger'.form) ]_vars

\* C2: a merge whose batch has a row missing a required field is rejected as
\* a whole: the ledger and the files stay as they were.
C2_RejectWholeBatch ==
    [][ ( /\ done' \cap {"merge", "merge_error"} # {}
          /\ now' = now
          /\ MissingField(uploaded_file') )
        => ( /\ "merge_error" \in done'
             /\ transactions_df' = transactions_df
             /\ files' = files ) ]_vars

\* C3 as stated: merging a batch whose rows are all already in the ledger
\* leaves the ledger's length unchanged, for every reachable ledger.
C3_IdempotentMergeAnyLedger ==
    BatchAlreadyPresent => Len(transactions_df) = Len(prev_df)

\* C3 as amended: merging a batch whose rows are all already in the ledger
\* leaves the length unchanged when the ledger holds no repeated row.
C3_IdempotentMerge ==
    (BatchAlreadyPresent /\ NoRepeatedRow(prev_df))
        => Len(transactions_df) = Len(prev_df)

C3_Witness ==
    /\ BatchAlreadyPresent
    /\ NoRepeatedRow(prev_df)
    /\ Len(prev_df) >= 2
    /\ Len(transactions_df) = Len(prev_df)

\* C4: deleting position i of an n-row ledger gives n-1 rows, the rows before
\* i in place, the rows after i one position down, positions 0..n-2, and
\* that ledger is what the file holds.
C4_DeleteAt ==
    "delete" \in done =>
        LET n == Len(prev_df)
            i == trigger.index
        IN /\ Len(transactions_df) = n - 1
           /\ \A p \in 0..(n - 1) :
                 /\ p < i => transactions_df[p + 1] = prev_df[p + 1]
                 /\ p > i => transactions_df[p] = prev_df[p + 1]
           /\ {OptionIndex(delete_options(transactions_df)[j]) :
                  j \in 1..Len(transactions_df)} = 0..(n - 2)
           /\ files[saved_to] = [exists |-> TRUE, rows |-> ToCsv(transactions_df)]

C4_Witness ==
    /\ "delete" \in done
    /\ trigger.index = 0
    /\ Len(prev_df) = 3
    /\ prev_df[1] # prev_df[2]
    /\ transactions_df = <<prev_df[2], prev_df[3]>>

\* C5: every row of every file has its four fields populated.
C5_PersistedRowsComplete ==
    \A name \in FileNames : \A i \in 1..Len(files[name].rows) :
        \A c \in Columns : files[name].rows[i][c] # ""

\* C6: whenever the application waits for input, the file of the current
\* store identifier holds exactly the ledger in memory.
C6_StoreEqualsLedger ==
    (loaded /\ ~rerun)
        => load_transactions(files, get_data_filename) = transactions_df

\* C7: appending a valid transaction to an n-row ledger gives n+1 rows, the
\* first n unchanged and in place, the last one the transaction, also when an
\* identical row is already there.
C7_Append ==
    "add" \in done =>
        LET n == Len(prev_df)
            t == trigger.form
        IN /\ Len(transactions_df) = n + 1
           /\ \A j \in 1..n : transactions_df[j] = prev_df[j]
           /\ transactions_df[n + 1]["type"] = Str(t.type)
           /\ transactions_df[n + 1]["category"] = Str(t.category)
           /\ transactions_df[n + 1]["amount"] = Num(t.amount)
           /\ transactions_df[n + 1]["date"] = Str(t.date)

C7_Witness ==
    /\ "add" \in done
    /\ Len(prev_df) >= 2
    /\ \E j \in 1..Len(prev_df) : prev_df[j] = transactions_df[Len(transactions_df)]

\* the sum of the amounts of the rows of one type, counted amount by amount
CountedSum(df, kind) ==
    LET rows(a) == {j \in 1..Len(df) :
                       df[j]["type"] = Str(kind) /\ df[j]["amount"] = Num(a)}
        upto[a \in 0..(Len(NumText) - 1)] ==
            IF a = 0 THEN 0 ELSE upto[a - 1] + a * Cardinality(rows(a))
    IN upto[Len(NumText) - 1]

\* C8: the totals shown are the sums of the income and of the expense
\* amounts of the ledger and net_savings is their difference; an appended
\* income of a raises net_savings by a, an appended expense lowers it by a.
C8_Aggregates ==
    /\ (loaded /\ ~rerun) =>
          /\ metrics.income = CountedSum(transactions_df, "income")
          /\ metrics.expense = CountedSum(transactions_df, "expense")
          /\ metrics.net = metrics.income - metrics.expense
    /\ ("add" \in done /\ trigger.form.type = "income") =>
          net_savings(transactions_df) = net_savings(prev_df) + trigger.form.amount
    /\ ("add" \in done /\ trigger.form.type = "expense") =>
          net_savings(transactions_df) = net_savings(prev_df) - trigger.form.amount

C8_Witness ==
    /\ loaded /\ ~rerun
    /\ Len(transactions_df) >= 2
    /\ metrics = [income |-> 2, expense |-> 1, net |-> 1]

\* C9: a submitted form with an empty category adds no row, changes neither
\* the ledger nor the files, saves nothing and shows an error.
C9_RejectEmptyCategory ==
    /\ [] ( (trigger.kind = "add" /\ trigger.form.category = "") =>
              /\ "add_error" \in done
              /\ "add" \notin done
              /\ transactions_df = prev_df
              /\ saved_to = NoName
              /\ "Please enter a category." \in msgs )
    /\ [][ (trigger'.kind = "add" /\ trigger'.form.category = "")
              => (transactions_df' = transactions_df /\ files' = files) ]_vars

C9_Witness ==
    /\ trigger.kind = "add"
    /\ trigger.form.category = ""
    /\ "Please enter a category." \in msgs
    /\ Len(transactions_df) >= 1
    /\ transactions_df = prev_df

\* C10: a successful merge gives the ledger followed by the batch with every
\* later exact duplicate removed: each distinct row once, at the place of
\* its first occurrence, in the order of the first occurrences.
C10_MergeResult ==
    "merge" \in done =>
        LET all == prev_df \o Batch
        IN /\ NoRepeatedRow(transactions_df)
           /\ RowsOf(transactions_df) = RowsOf(all)
           /\ \A i, j \in 1..Len(transactions_df) :
                  i < j => FirstAt(all, transactions_df[i])
                             < FirstAt(all, transactions_df[j])

C10_Witness ==
    /\ "merge" \in done
    /\ Len(prev_df) >= 1
    /\ Len(transactions_df) > Len(prev_df)
    /\ Len(transactions_df) < Len(prev_df \o Batch)

====
